---- MODULE Spec2Model ----
(***************************************************************************)
(* Model of the GPIO abstraction layer of idf-gpio (inc/Gpio.hpp,          *)
(* src/Gpio.cpp): the validated value types (GPIONum, GPIODriveStrength,   *)
(* GPIOPullMode, GPIOWakeupIntrType), the pin classes GPIO / PinOutput /   *)
(* PinInput / PinOutputInput, their constructors and their methods.        *)
(*                                                                         *)
(* The platform driver (driver/gpio.h) is outside the repository.  Every   *)
(* driver call is recorded with the status the driver answers, and that    *)
(* status (and a value read back) is an input chosen by the environment.   *)
(*                                                                         *)
(* Integers of the model are limited to the signed 32-bit range, so the    *)
(* uint32_t arguments are drawn from 0 .. 2^31 - 1.                        *)
(***************************************************************************)
EXTENDS Integers, Sequences, FiniteSets, TLC

VARIABLES
    target,     \* the build target (CONFIG_IDF_TARGET_*), fixed for a run
    num,        \* the caller's GPIONum value, NoVal when it holds none
    strength,   \* the caller's GPIODriveStrength value, NoVal when none
    pins,       \* the pin objects constructed so far, in order
    last,       \* the last operation: its driver calls and its outcome
    nops        \* number of operations performed

vars == <<target, num, strength, pins, last, nops>>

----------------------------------------------------------------------------
(* Bounds *)

\* Operations performed in one run.
MaxOps == 3

NoVal == 0 - 1

\* A large uint32_t argument (INT32_MAX).
BigArg == 2147483646 + 1

----------------------------------------------------------------------------
(* Platform constants (esp_err.h, driver/gpio.h, hal/gpio_types.h) *)

ESP_OK == 0
ESP_FAIL == 0 - 1
ESP_ERR_INVALID_ARG == 258

GPIO_DRIVE_CAP_0 == 0
GPIO_DRIVE_CAP_1 == 1
GPIO_DRIVE_CAP_2 == 2
GPIO_DRIVE_CAP_3 == 3
GPIO_DRIVE_CAP_MAX == 4

GPIO_PULLUP_ONLY == 0
GPIO_PULLDOWN_ONLY == 1
GPIO_FLOATING == 3

GPIO_INTR_LOW_LEVEL == 4
GPIO_INTR_HIGH_LEVEL == 5

GPIO_MODE_INPUT == 1
GPIO_MODE_OUTPUT == 2
GPIO_MODE_INPUT_OUTPUT_OD == 7

Targets == {"LINUX", "ESP32", "ESP32S2", "ESP32S3", "ESP32C3", "ESP32C2"}

\* The reserved pin numbers of the target, as the array the code scans.
INVALID_GPIOS ==
    CASE target = "LINUX"   -> <<24>>
      [] target = "ESP32"   -> <<24>>
      [] target = "ESP32S2" -> <<22, 23, 24, 25>>
      [] target = "ESP32S3" -> <<22, 23, 24, 25>>
      [] target = "ESP32C3" -> <<>>
      [] target = "ESP32C2" -> <<>>

\* The pin-count limit of the target: GPIO_NUM_MAX of gpio_num_t, taken from
\* the driver headers of each target (driver/gpio.h).
GPIO_NUM_MAX ==
    CASE target = "LINUX"   -> 40
      [] target = "ESP32"   -> 40
      [] target = "ESP32S2" -> 47
      [] target = "ESP32S3" -> 49
      [] target = "ESP32C3" -> 22
      [] target = "ESP32C2" -> 21

----------------------------------------------------------------------------
(* Validators *)

\* The scan of INVALID_GPIOS from index i on: TRUE when pin_num is found.
RECURSIVE ScanInvalid(_, _)
ScanInvalid(pin_num, i) ==
    IF i > Len(INVALID_GPIOS) THEN FALSE
    ELSE IF pin_num = INVALID_GPIOS[i] THEN TRUE
    ELSE ScanInvalid(pin_num, i + 1)

\* Mutant: the range test lets GPIO_NUM_MAX itself through.
isValidPin_OffByOne(pin_num) ==
    IF pin_num > GPIO_NUM_MAX THEN ESP_ERR_INVALID_ARG
    ELSE IF ScanInvalid(pin_num, 1) THEN ESP_ERR_INVALID_ARG
    ELSE ESP_OK

\* Mutant: the reserved pins are not looked at.
isValidPin_NoReserved(pin_num) ==
    IF pin_num >= GPIO_NUM_MAX THEN ESP_ERR_INVALID_ARG ELSE ESP_OK

isValidPin(pin_num) ==
    IF pin_num >= GPIO_NUM_MAX THEN ESP_ERR_INVALID_ARG
    ELSE IF ScanInvalid(pin_num, 1) THEN ESP_ERR_INVALID_ARG
    ELSE ESP_OK

\* Mutant: the range test lets GPIO_DRIVE_CAP_MAX itself through.
isValidDriveStrengthPin_OffByOne(s) ==
    IF s > GPIO_DRIVE_CAP_MAX THEN ESP_ERR_INVALID_ARG ELSE ESP_OK

\* Mutant: every code is accepted.
isValidDriveStrengthPin_Always(s) == ESP_OK

isValidDriveStrengthPin(s) ==
    IF s >= GPIO_DRIVE_CAP_MAX THEN ESP_ERR_INVALID_ARG ELSE ESP_OK

----------------------------------------------------------------------------
(* Outcomes *)

\* One driver call: the function, the pin and argument passed, the status
\* (or level) returned and the value written through an out parameter.
DriverCall(fn, pin, arg, ret, out) ==
    [fn |-> fn, pin |-> pin, arg |-> arg, ret |-> ret, out |-> out]

\* The outcome of a constructor or method: the driver calls it issued, the
\* exception it threw (error is the esp_err_t it carries) or the value it
\* returned.
Outcome(calls, err, val) ==
    [calls |-> calls, thrown |-> err # ESP_OK, error |-> err,
     val |-> IF err # ESP_OK THEN NoVal ELSE val]

\* Mutant: the exception carries ESP_ERR_INVALID_ARG whatever the driver
\* answered.
GPIO_CHECK_THROW_FixedError(calls, err, val) ==
    Outcome(calls, IF err # ESP_OK THEN ESP_ERR_INVALID_ARG ELSE ESP_OK, val)

\* GPIO_CHECK_THROW(err) after the calls so far: throws GPIOException(err)
\* unless err is ESP_OK.
GPIO_CHECK_THROW(calls, err, val) == Outcome(calls, err, val)

\* StrongValue::get_value<T>(): the stored number cast to the driver's type.
get_value(v) == IF v > BigArg THEN v - BigArg - BigArg - 2 ELSE v

----------------------------------------------------------------------------
(* Value types *)

\* GPIONumBase(pin): throws GPIOException(isValidPin(pin)) unless ESP_OK.
GPIONum_ctor(pin) == Outcome(<<>>, isValidPin(pin), pin)

\* GPIODriveStrength(strength): throws unless the code is in range.
GPIODriveStrength_ctor(s) == Outcome(<<>>, isValidDriveStrengthPin(s), s)

WEAK == GPIODriveStrength_ctor(GPIO_DRIVE_CAP_0)
LESS_WEAK == GPIODriveStrength_ctor(GPIO_DRIVE_CAP_1)
MEDIUM == GPIODriveStrength_ctor(GPIO_DRIVE_CAP_2)
STRONGEST == GPIODriveStrength_ctor(GPIO_DRIVE_CAP_3)
DEFAULT == MEDIUM

DriveStrengthFactories == {"DEFAULT", "WEAK", "LESS_WEAK", "MEDIUM", "STRONGEST"}

DriveStrengthFactory(f) ==
    CASE f = "DEFAULT"   -> DEFAULT
      [] f = "WEAK"      -> WEAK
      [] f = "LESS_WEAK" -> LESS_WEAK
      [] f = "MEDIUM"    -> MEDIUM
      [] f = "STRONGEST" -> STRONGEST

\* The private constructors of GPIOPullMode and GPIOWakeupIntrType store the
\* code unchecked; the static creation methods are their only callers.
FLOATING == GPIO_FLOATING
PULLUP == GPIO_PULLUP_ONLY
PULLDOWN == GPIO_PULLDOWN_ONLY
GPIOPullModes == {FLOATING, PULLUP, PULLDOWN}

LOW_LEVEL == GPIO_INTR_LOW_LEVEL
HIGH_LEVEL == GPIO_INTR_HIGH_LEVEL
GPIOWakeupIntrTypes == {LOW_LEVEL, HIGH_LEVEL}

----------------------------------------------------------------------------
(* Class hierarchy and member access (inc/Gpio.hpp) *)

\* Mutant: PinOutput derives from PinInput.
Base_OutputFromInput(c) ==
    CASE c = "PinOutput"      -> "PinInput"
      [] c = "PinInput"       -> "GPIO"
      [] c = "PinOutputInput" -> "PinInput"
      [] OTHER                -> "none"

\* The base class of a class.
Base(c) ==
    CASE c = "PinOutput"      -> "GPIO"
      [] c = "PinInput"       -> "GPIO"
      [] c = "PinOutputInput" -> "PinInput"
      [] OTHER                -> "none"

\* The member functions a class declares itself.
Declared(c) ==
    CASE c = "GPIO" ->
           {"holdEnable", "holdDisable", "setDriveStrength", "getDriveStrength"}
      [] c = "PinOutput" -> {"setHigh", "setLow"}
      [] c = "PinInput" ->
           {"getLevel", "setPullMode", "wakeupEnable", "wakeupDisable"}
      [] c = "PinOutputInput" -> {"setFloating", "setLow"}
      [] OTHER -> {}

\* The names in a class's public section: its public member functions and
\* its using-declarations.  GPIO's members are all protected.
PublicIn(c) ==
    CASE c = "PinOutput" ->
           {"setHigh", "setLow", "getDriveStrength", "setDriveStrength"}
      [] c = "PinInput" ->
           {"getLevel", "setPullMode", "wakeupEnable", "wakeupDisable"}
      [] c = "PinOutputInput" ->
           {"setFloating", "setLow", "getDriveStrength", "setDriveStrength"}
      [] OTHER -> {}

\* The class whose member a call of m on an object of class c runs: the
\* nearest class, from c up, that declares m; "none" when m is no member.
RECURSIVE Resolve(_, _)
Resolve(c, m) ==
    IF c = "none" THEN "none"
    ELSE IF m \in Declared(c) THEN c
    ELSE Resolve(Base(c), m)

\* Whether m is public in class c (all inheritance is public).
RECURSIVE IsPublic(_, _)
IsPublic(c, m) ==
    IF c = "none" THEN FALSE
    ELSE IF m \in PublicIn(c) THEN TRUE
    ELSE IsPublic(Base(c), m)

\* How m can be reached on an object of class c: "public" by any caller,
\* "protected" only by code of the class hierarchy, "none" not at all.
Access(c, m) ==
    IF Resolve(c, m) = "none" THEN "none"
    ELSE IF IsPublic(c, m) THEN "public"
    ELSE "protected"

\* The classes a caller can construct from a GPIONum (GPIO's constructor is
\* protected).
ConfigClasses == {"PinOutput", "PinInput", "PinOutputInput"}

\* Whether an object of class c is also a d: d is c or one of its bases.
RECURSIVE IsA(_, _)
IsA(c, d) ==
    IF c = "none" THEN FALSE
    ELSE IF c = d THEN TRUE
    ELSE IsA(Base(c), d)

\* The ways m can be run on an object of class c.  Named through class d
\* (obj.m(), obj.d::m(), or the pointer to member &d::m), m is the member
\* of Resolve(d, m), it runs on every object that is a Resolve(d, m), and
\* access is checked in d: &PinOutput::getDriveStrength is a public name
\* of type GPIODriveStrength (GPIO::*)() and runs on any GPIO.
Reach(c, m) ==
    {Access(d, m) : d \in {e \in ConfigClasses \cup {"GPIO"} :
                              /\ Resolve(e, m) # "none"
                              /\ IsA(c, Resolve(e, m))}}

----------------------------------------------------------------------------
(* Constructors of the pin classes (src/Gpio.cpp) *)

\* Mutant: the pin is not reset.
GPIO_ctor_NoReset(n, s1) == Outcome(<<>>, ESP_OK, n)

\* GPIO::GPIO(num): resets the pin; s1 is the status of gpio_reset_pin.
GPIO_ctor(n, s1) ==
    GPIO_CHECK_THROW(
        <<DriverCall("gpio_reset_pin", get_value(n), NoVal, s1, NoVal)>>, s1, n)

\* One more checked driver call after a part that did not throw.
AndThen(before, call, n) ==
    IF before.thrown THEN before
    ELSE GPIO_CHECK_THROW(Append(before.calls, call), call.ret, n)

\* PinOutput::PinOutput(num) : GPIO(num)
PinOutput_ctor(n, s1, s2) ==
    AndThen(GPIO_ctor(n, s1),
            DriverCall("gpio_set_direction", get_value(n), GPIO_MODE_OUTPUT,
                       s2, NoVal), n)

\* PinInput::PinInput(num) : GPIO(num)
PinInput_ctor(n, s1, s2) ==
    AndThen(GPIO_ctor(n, s1),
            DriverCall("gpio_set_direction", get_value(n), GPIO_MODE_INPUT,
                       s2, NoVal), n)

\* Mutant: PinOutputInput built on GPIO directly, skipping PinInput.
PinOutputInput_ctor_FromGPIO(n, s1, s2, s3) ==
    AndThen(GPIO_ctor(n, s1),
            DriverCall("gpio_set_direction", get_value(n),
                       GPIO_MODE_INPUT_OUTPUT_OD, s3, NoVal), n)

\* PinOutputInput::PinOutputInput(num) : PinInput(num)
PinOutputInput_ctor(n, s1, s2, s3) ==
    AndThen(PinInput_ctor(n, s1, s2),
            DriverCall("gpio_set_direction", get_value(n),
                       GPIO_MODE_INPUT_OUTPUT_OD, s3, NoVal), n)

----------------------------------------------------------------------------
(* Methods (src/Gpio.cpp).  n is the object's gpio_num, st the status the   *)
(* driver answers.                                                         *)

GPIO_holdEnable(n, st) ==
    GPIO_CHECK_THROW(
        <<DriverCall("gpio_hold_en", get_value(n), NoVal, st, NoVal)>>, st, NoVal)

GPIO_holdDisable(n, st) ==
    GPIO_CHECK_THROW(
        <<DriverCall("gpio_hold_dis", get_value(n), NoVal, st, NoVal)>>, st, NoVal)

GPIO_setDriveStrength(n, str, st) ==
    GPIO_CHECK_THROW(
        <<DriverCall("gpio_set_drive_capability", get_value(n), get_value(str),
                     st, NoVal)>>, st, NoVal)

\* cap is the code the driver writes to the out parameter when it succeeds.
\* The code is wrapped by the checking constructor of GPIODriveStrength.
GPIO_getDriveStrength(n, st, cap) ==
    LET call == DriverCall("gpio_get_drive_capability", get_value(n), NoVal, st,
                           IF st = ESP_OK THEN cap ELSE NoVal)
        got  == GPIO_CHECK_THROW(<<call>>, st, NoVal)
        made == GPIODriveStrength_ctor(cap)
    IN  IF got.thrown THEN got
        ELSE Outcome(<<call>>, made.error, made.val)

PinOutput_setHigh(n, st) ==
    GPIO_CHECK_THROW(
        <<DriverCall("gpio_set_level", get_value(n), 1, st, NoVal)>>, st, NoVal)

PinOutput_setLow(n, st) ==
    GPIO_CHECK_THROW(
        <<DriverCall("gpio_set_level", get_value(n), 0, st, NoVal)>>, st, NoVal)

\* enum class GPIOLevel { HIGH, LOW }
GPIOLevel_HIGH == 0
GPIOLevel_LOW == 1

\* Mutant: only the level 1 reads as HIGH.
LevelOf_OnlyOne(level) == IF level = 1 THEN GPIOLevel_HIGH ELSE GPIOLevel_LOW

\* The branch of getLevel on the int the driver returns.
LevelOf(level) == IF level # 0 THEN GPIOLevel_HIGH ELSE GPIOLevel_LOW

\* noexcept: the level the driver returns is not a status and is not checked.
PinInput_getLevel(n, level) ==
    Outcome(<<DriverCall("gpio_get_level", get_value(n), NoVal, level, NoVal)>>,
            ESP_OK, LevelOf(level))

PinInput_setPullMode(n, mode, st) ==
    GPIO_CHECK_THROW(
        <<DriverCall("gpio_set_pull_mode", get_value(n), get_value(mode),
                     st, NoVal)>>, st, NoVal)

PinInput_wakeupEnable(n, interrupt_type, st) ==
    GPIO_CHECK_THROW(
        <<DriverCall("gpio_wakeup_enable", get_value(n),
                     get_value(interrupt_type), st, NoVal)>>, st, NoVal)

PinInput_wakeupDisable(n, st) ==
    GPIO_CHECK_THROW(
        <<DriverCall("gpio_wakeup_disable", get_value(n), NoVal, st, NoVal)>>,
        st, NoVal)

PinOutputInput_setFloating(n, st) ==
    GPIO_CHECK_THROW(
        <<DriverCall("gpio_set_level", get_value(n), 1, st, NoVal)>>, st, NoVal)

PinOutputInput_setLow(n, st) ==
    GPIO_CHECK_THROW(
        <<DriverCall("gpio_set_level", get_value(n), 0, st, NoVal)>>, st, NoVal)

----------------------------------------------------------------------------
(* Inputs *)

\* The uint32_t values a caller passes to GPIONum's constructor on the way
\* to a pin object: two valid pins, a reserved or out-of-range one, the limit.
PinArgs == {0, 24, GPIO_NUM_MAX - 1, GPIO_NUM_MAX}

\* The uint32_t values a caller passes to GPIONum's constructor, value types
\* alone: around the reserved pins of every target and around the limit.
WidePinArgs ==
    {0, 1, 20, 21, 22, 23, 24, 25, 26, 27,
     GPIO_NUM_MAX - 2, GPIO_NUM_MAX - 1, GPIO_NUM_MAX, GPIO_NUM_MAX + 1,
     BigArg - 1, BigArg}

\* The uint32_t values a caller passes to GPIODriveStrength's constructor.
StrengthArgs == {GPIO_DRIVE_CAP_3, GPIO_DRIVE_CAP_MAX}

WideStrengthArgs ==
    {0, 1, 2, 3, GPIO_DRIVE_CAP_MAX, GPIO_DRIVE_CAP_MAX + 1, 24, BigArg}

\* The esp_err_t values the driver answers: success, and a failure that is
\* not the ESP_ERR_INVALID_ARG the value types throw themselves.
DriverStatuses == {ESP_OK, ESP_FAIL}

\* The int values gpio_get_level returns.
DriverLevels == {0, 1, 2}

\* The gpio_drive_cap_t values gpio_get_drive_capability writes.
DriverCaps == GPIO_DRIVE_CAP_0 .. GPIO_DRIVE_CAP_MAX

----------------------------------------------------------------------------
(* State machine *)

NoOutcome == Outcome(<<>>, ESP_OK, NoVal)

\* The record of an operation: op names the constructor or method, obj the
\* index in pins of the object it ran on (0 for none), access how the caller
\* reached it, arg its argument (NoVal for none).
Record(op, obj, access, arg, out) ==
    [op |-> op, obj |-> obj, access |-> access, arg |-> arg,
     calls |-> out.calls, thrown |-> out.thrown, error |-> out.error,
     val |-> out.val]

Init ==
    /\ target \in Targets
    /\ num = NoVal
    /\ strength = NoVal
    /\ pins = <<>>
    /\ last = Record("none", 0, "none", NoVal, NoOutcome)
    /\ nops = 0

Step == nops < MaxOps /\ nops' = nops + 1

\* A constructor that throws leaves no object behind.
Constructed(kind, out) ==
    IF out.thrown THEN pins
    ELSE Append(pins, [kind |-> kind, gpio_num |-> out.val])

\* The objects on which a call of m runs class cls's member, bare GPIO
\* copies included for the members of GPIO.
Receivers(cls, m) == {i \in 1 .. Len(pins) : Resolve(pins[i].kind, m) = cls}

\* GPIONum(p): the value is kept by the caller unless the constructor throws.
MakeGPIONum(p) ==
    \E out \in {GPIONum_ctor(p)} :
    /\ num' = IF out.thrown THEN num ELSE out.val
    /\ last' = Record("GPIONum", 0, "public", p, out)
    /\ UNCHANGED <<target, strength, pins>>

\* GPIODriveStrength(s)
MakeGPIODriveStrength(s) ==
    \E out \in {GPIODriveStrength_ctor(s)} :
    /\ strength' = IF out.thrown THEN strength ELSE out.val
    /\ last' = Record("GPIODriveStrength", 0, "public", s, out)
    /\ UNCHANGED <<target, num, pins>>

\* GPIODriveStrength::DEFAULT() / WEAK() / LESS_WEAK() / MEDIUM() / STRONGEST()
MakeDriveStrengthByName(f) ==
    \E out \in {DriveStrengthFactory(f)} :
    /\ strength' = IF out.thrown THEN strength ELSE out.val
    /\ last' = Record(f, 0, "public", NoVal, out)
    /\ UNCHANGED <<target, num, pins>>

NewGPIONum == Step /\ \E p \in PinArgs : MakeGPIONum(p)

NewGPIODriveStrength ==
    Step /\ \E s \in StrengthArgs : MakeGPIODriveStrength(s)

NewDriveStrengthByName ==
    Step /\ \E f \in DriveStrengthFactories : MakeDriveStrengthByName(f)

\* The GPIONum temporary of PinOutput(GPIONum(p)) and the like: its
\* constructor runs first, and when it throws the pin constructor does not
\* run at all.
OnGPIONum(p, built) ==
    IF GPIONum_ctor(p).thrown THEN GPIONum_ctor(p) ELSE built

\* The statuses of the driver calls of one constructor: a call after one that
\* failed, or after a GPIONum that was refused, is never issued, and its
\* status is no input.
Issued(p, s1, s2, s3) ==
    /\ GPIONum_ctor(p).thrown => s1 = ESP_OK
    /\ s1 # ESP_OK => s2 = ESP_OK
    /\ s2 # ESP_OK => s3 = ESP_OK

\* PinOutput(GPIONum(p))
NewPinOutput ==
    /\ Step
    /\ \E p \in PinArgs, s1, s2 \in DriverStatuses :
        \E out \in {OnGPIONum(p, PinOutput_ctor(p, s1, s2))} :
        /\ Issued(p, s1, s2, ESP_OK)
        /\ pins' = Constructed("PinOutput", out)
        /\ last' = Record("PinOutput", 0, "public", p, out)
        /\ UNCHANGED <<target, num, strength>>

\* PinInput(GPIONum(p))
NewPinInput ==
    /\ Step
    /\ \E p \in PinArgs, s1, s2 \in DriverStatuses :
        \E out \in {OnGPIONum(p, PinInput_ctor(p, s1, s2))} :
        /\ Issued(p, s1, s2, ESP_OK)
        /\ pins' = Constructed("PinInput", out)
        /\ last' = Record("PinInput", 0, "public", p, out)
        /\ UNCHANGED <<target, num, strength>>

\* PinOutputInput(GPIONum(p))
NewPinOutputInput ==
    /\ Step
    /\ \E p \in PinArgs, s1, s2, s3 \in DriverStatuses :
        \E out \in {OnGPIONum(p, PinOutputInput_ctor(p, s1, s2, s3))} :
        /\ Issued(p, s1, s2, s3)
        /\ pins' = Constructed("PinOutputInput", out)
        /\ last' = Record("PinOutputInput", 0, "public", p, out)
        /\ UNCHANGED <<target, num, strength>>

\* A method call that returns nothing to keep.
Call(m, i, arg, out) ==
    \E access \in Reach(pins[i].kind, m) :
        /\ last' = Record(m, i, access, arg, out)
        /\ UNCHANGED <<target, num, strength, pins>>

\* holdEnable and holdDisable are protected in GPIO and no pin class
\* re-exposes them: the calls below are recorded with access "protected",
\* reachable by code of the class hierarchy only.
HoldEnable ==
    /\ Step
    /\ \E i \in Receivers("GPIO", "holdEnable"), st \in DriverStatuses :
        Call("holdEnable", i, NoVal, GPIO_holdEnable(pins[i].gpio_num, st))

HoldDisable ==
    /\ Step
    /\ \E i \in Receivers("GPIO", "holdDisable"), st \in DriverStatuses :
        Call("holdDisable", i, NoVal, GPIO_holdDisable(pins[i].gpio_num, st))

SetDriveStrength ==
    /\ Step
    /\ \E i \in Receivers("GPIO", "setDriveStrength"), st \in DriverStatuses :
        /\ strength # NoVal
        /\ Call("setDriveStrength", i, strength,
                GPIO_setDriveStrength(pins[i].gpio_num, strength, st))

\* The GPIODriveStrength returned is kept by the caller.
GetDriveStrength ==
    /\ Step
    /\ \E i \in Receivers("GPIO", "getDriveStrength"), st \in DriverStatuses,
       cap \in DriverCaps :
        \E out \in {GPIO_getDriveStrength(pins[i].gpio_num, st, cap)},
           access \in Reach(pins[i].kind, "getDriveStrength") :
        /\ st # ESP_OK => cap = GPIO_DRIVE_CAP_0
        /\ strength' = IF out.thrown THEN strength ELSE out.val
        /\ last' = Record("getDriveStrength", i, access, NoVal, out)
        /\ UNCHANGED <<target, num, pins>>

SetHigh ==
    /\ Step
    /\ \E i \in Receivers("PinOutput", "setHigh"), st \in DriverStatuses :
        Call("setHigh", i, NoVal, PinOutput_setHigh(pins[i].gpio_num, st))

SetLowOutput ==
    /\ Step
    /\ \E i \in Receivers("PinOutput", "setLow"), st \in DriverStatuses :
        Call("setLow", i, NoVal, PinOutput_setLow(pins[i].gpio_num, st))

GetLevel ==
    /\ Step
    /\ \E i \in Receivers("PinInput", "getLevel"), level \in DriverLevels :
        Call("getLevel", i, NoVal, PinInput_getLevel(pins[i].gpio_num, level))

SetPullMode ==
    /\ Step
    /\ \E i \in Receivers("PinInput", "setPullMode"), mode \in GPIOPullModes,
       st \in DriverStatuses :
        Call("setPullMode", i, mode,
             PinInput_setPullMode(pins[i].gpio_num, mode, st))

WakeupEnable ==
    /\ Step
    /\ \E i \in Receivers("PinInput", "wakeupEnable"),
       interrupt_type \in GPIOWakeupIntrTypes, st \in DriverStatuses :
        Call("wakeupEnable", i, interrupt_type,
             PinInput_wakeupEnable(pins[i].gpio_num, interrupt_type, st))

WakeupDisable ==
    /\ Step
    /\ \E i \in Receivers("PinInput", "wakeupDisable"), st \in DriverStatuses :
        Call("wakeupDisable", i, NoVal,
             PinInput_wakeupDisable(pins[i].gpio_num, st))

SetFloating ==
    /\ Step
    /\ \E i \in Receivers("PinOutputInput", "setFloating"), st \in DriverStatuses :
        Call("setFloating", i, NoVal,
             PinOutputInput_setFloating(pins[i].gpio_num, st))

SetLowOutputInput ==
    /\ Step
    /\ \E i \in Receivers("PinOutputInput", "setLow"), st \in DriverStatuses :
        Call("setLow", i, NoVal, PinOutputInput_setLow(pins[i].gpio_num, st))

\* The implicit copy constructor of class d, from an object that is a d (of
\* class d, or of a class derived from it and sliced): the new object takes
\* the source's gpio_num; no driver call is issued and nothing is thrown.
\* No class of Gpio.hpp declares or deletes it, so it is public in each,
\* GPIO included: GPIO g(a) leaves a bare GPIO.
CopyPin ==
    /\ Step
    /\ \E i \in 1 .. Len(pins), d \in ConfigClasses \cup {"GPIO"} :
        /\ IsA(pins[i].kind, d)
        /\ pins' = Append(pins, [kind |-> d, gpio_num |-> pins[i].gpio_num])
        /\ last' = Record("copy", i, "public", pins[i].gpio_num,
                          Outcome(<<>>, ESP_OK, pins[i].gpio_num))
        /\ UNCHANGED <<target, num, strength>>

\* The implicit copy assignment: a = b between objects of one class, and,
\* through the public implicit GPIO::operator=(const GPIO&) that every
\* object converts to (GPIO& ga = a; ga = b), between any two objects, bare
\* GPIO copies and a = a included: a takes b's gpio_num; no driver call is
\* issued.  The operator exists when GPIONum is assignable, which
\* StrongValue (System.hpp) decides; the step is kept, so that what is
\* checked holds of either build.
AssignPin ==
    /\ Step
    /\ \E a, b \in 1 .. Len(pins) :
        /\ pins' = [pins EXCEPT ![a].gpio_num = pins[b].gpio_num]
        /\ last' = Record("assign", a, "public", pins[b].gpio_num,
                          Outcome(<<>>, ESP_OK, NoVal))
        /\ UNCHANGED <<target, num, strength>>

Next ==
    \/ NewGPIONum
    \/ NewGPIODriveStrength
    \/ NewDriveStrengthByName
    \/ NewPinOutput
    \/ NewPinInput
    \/ NewPinOutputInput
    \/ HoldEnable
    \/ HoldDisable
    \/ SetDriveStrength
    \/ GetDriveStrength
    \/ SetHigh
    \/ SetLowOutput
    \/ GetLevel
    \/ SetPullMode
    \/ WakeupEnable
    \/ WakeupDisable
    \/ SetFloating
    \/ SetLowOutputInput
    \/ CopyPin
    \/ AssignPin

Spec == Init /\ [][Next]_vars

----------------------------------------------------------------------------
(* The value types alone, over the wide argument sets *)

AnyGPIONum == \E p \in WidePinArgs : MakeGPIONum(p) /\ UNCHANGED nops

AnyGPIODriveStrength ==
    \E s \in WideStrengthArgs : MakeGPIODriveStrength(s) /\ UNCHANGED nops

AnyDriveStrengthByName ==
    \E f \in DriveStrengthFactories :
        MakeDriveStrengthByName(f) /\ UNCHANGED nops

NextValues ==
    \/ AnyGPIONum
    \/ AnyGPIODriveStrength
    \/ AnyDriveStrengthByName

SpecValues == Init /\ [][NextValues]_vars

----------------------------------------------------------------------------
(* Vocabulary of the properties *)

\* The reserved pins of the target, as a set.
ReservedPins == {INVALID_GPIOS[k] : k \in 1 .. Len(INVALID_GPIOS)}

\* A pin number below the pin-count limit and not reserved.
PinIsLegal(p) == p >= 0 /\ p < GPIO_NUM_MAX /\ p \notin ReservedPins

ConfigCtors == {"PinOutput", "PinInput", "PinOutputInput"}

\* The direction every call but the first of a configuration constructor
\* programs, in order.
DirectionsOf(op) ==
    CASE op = "PinOutput"      -> <<GPIO_MODE_OUTPUT>>
      [] op = "PinInput"       -> <<GPIO_MODE_INPUT>>
      [] op = "PinOutputInput" -> <<GPIO_MODE_INPUT, GPIO_MODE_INPUT_OUTPUT_OD>>

\* The direction of the last gpio_set_direction call that succeeded among
\* calls, NoVal when there is none.
RECURSIVE LastDirection(_)
LastDirection(calls) ==
    IF calls = <<>> THEN NoVal
    ELSE LET c == calls[Len(calls)] IN
         IF c.fn = "gpio_set_direction" /\ c.ret = ESP_OK THEN c.arg
         ELSE LastDirection(SubSeq(calls, 1, Len(calls) - 1))

FallibleMethods ==
    {"setHigh", "setLow", "setFloating", "setPullMode", "wakeupEnable",
     "wakeupDisable", "setDriveStrength", "getDriveStrength", "holdEnable",
     "holdDisable"}

\* The one driver function each fallible method calls.
DriverFunctionOf(m) ==
    CASE m = "setHigh"          -> "gpio_set_level"
      [] m = "setLow"           -> "gpio_set_level"
      [] m = "setFloating"      -> "gpio_set_level"
      [] m = "setPullMode"      -> "gpio_set_pull_mode"
      [] m = "wakeupEnable"     -> "gpio_wakeup_enable"
      [] m = "wakeupDisable"    -> "gpio_wakeup_disable"
      [] m = "setDriveStrength" -> "gpio_set_drive_capability"
      [] m = "getDriveStrength" -> "gpio_get_drive_capability"
      [] m = "holdEnable"       -> "gpio_hold_en"
      [] m = "holdDisable"      -> "gpio_hold_dis"

----------------------------------------------------------------------------
(* C1 *)

\* C1: constructing a GPIONum from p succeeds if and only if p is below
\* GPIO_NUM_MAX and is not one of the target's INVALID_GPIOS; otherwise the
\* constructor throws ESP_ERR_INVALID_ARG and the caller holds no GPIONum of
\* that value.
C1_PinNumberValidation ==
    last.op = "GPIONum" =>
        /\ (~last.thrown) <=> PinIsLegal(last.arg)
        /\ (~last.thrown) => (num = last.arg /\ last.val = last.arg)
        /\ last.thrown =>
              /\ last.error = ESP_ERR_INVALID_ARG
              /\ last.val = NoVal
              /\ num # last.arg

\* A reserved pin below the limit is refused while an earlier GPIONum is held.
C1_Witness ==
    /\ last.op = "GPIONum"
    /\ last.thrown
    /\ last.arg \in ReservedPins
    /\ last.arg < GPIO_NUM_MAX
    /\ num # NoVal

----------------------------------------------------------------------------
(* C2 *)

NamedStrengths == {"WEAK", "LESS_WEAK", "MEDIUM", "STRONGEST"}

\* C2: constructing a GPIODriveStrength from s succeeds if and only if s is
\* below GPIO_DRIVE_CAP_MAX; WEAK, LESS_WEAK, MEDIUM and STRONGEST always
\* succeed with pairwise unequal values, and DEFAULT() equals MEDIUM().
C2_DriveStrengthValidation ==
    /\ last.op = "GPIODriveStrength" =>
          /\ (~last.thrown) <=> (last.arg < GPIO_DRIVE_CAP_MAX)
          /\ (~last.thrown) => strength = last.arg
          /\ last.thrown => last.error = ESP_ERR_INVALID_ARG
    /\ last.op \in DriveStrengthFactories =>
          /\ ~last.thrown
          /\ strength = last.val
          /\ strength < GPIO_DRIVE_CAP_MAX
    /\ \A f \in NamedStrengths : ~DriveStrengthFactory(f).thrown
    /\ \A f, g \in NamedStrengths :
          f # g => DriveStrengthFactory(f).val # DriveStrengthFactory(g).val
    /\ ~DriveStrengthFactory("DEFAULT").thrown
    /\ DriveStrengthFactory("DEFAULT").val = DriveStrengthFactory("MEDIUM").val

\* GPIO_DRIVE_CAP_MAX itself is refused while STRONGEST's value is held.
C2_Witness ==
    /\ last.op = "GPIODriveStrength"
    /\ last.arg = GPIO_DRIVE_CAP_MAX
    /\ last.thrown
    /\ strength = DriveStrengthFactory("STRONGEST").val

----------------------------------------------------------------------------
(* C3 *)

C3_Calls ==
    (last.op \in ConfigCtors /\ PinIsLegal(last.arg)) =>
        LET c == last.calls
            n == Len(last.calls)
        IN  /\ n >= 1
            /\ c[1].fn = "gpio_reset_pin"
            /\ \A k \in 2 .. n : c[k].fn = "gpio_set_direction"
            /\ \A k \in 1 .. n : c[k].pin = last.arg
            /\ \A k \in 1 .. n - 1 : c[k].ret = ESP_OK
            /\ last.thrown <=> (c[n].ret # ESP_OK)
            /\ last.thrown => last.error = c[n].ret
            /\ (~last.thrown) =>
                  /\ n = 1 + Len(DirectionsOf(last.op))
                  /\ Len(pins) >= 1
                  /\ pins[Len(pins)] = [kind |-> last.op, gpio_num |-> last.arg]

C3_NoObjectOnFailure ==
    (last'.op \in ConfigCtors /\ last'.thrown) => pins' = pins

\* C3: every configuration constructor (PinOutput, PinInput, PinOutputInput
\* handed a GPIONum) issues gpio_reset_pin before any gpio_set_direction on
\* its pin; when the reset or a direction call fails the constructor throws
\* that status, issues no further driver call and produces no object.
C3_ResetThenDirection == [][C3_Calls' /\ C3_NoObjectOnFailure]_vars

\* PinOutput's direction call fails after a successful reset, while an
\* earlier object exists: no further object.
C3_Witness ==
    /\ last.op = "PinOutput"
    /\ Len(last.calls) = 2
    /\ last.calls[1].ret = ESP_OK
    /\ last.thrown
    /\ Len(pins) = 1

----------------------------------------------------------------------------
(* C4 *)

\* C4: a pin number that is out of range or reserved, handed to PinOutput,
\* PinInput or PinOutputInput, is refused with ESP_ERR_INVALID_ARG by
\* GPIONum's constructor before any driver call: the attempt issues no driver
\* call, no driver call is ever issued for such a pin and no pin object holds
\* one.
C4_InvalidPinNoDriverCall ==
    /\ (last.op \in ConfigCtors /\ ~PinIsLegal(last.arg)) =>
          /\ last.thrown
          /\ last.error = ESP_ERR_INVALID_ARG
          /\ last.calls = <<>>
          /\ last.val = NoVal
    /\ \A k \in 1 .. Len(last.calls) : PinIsLegal(last.calls[k].pin)
    /\ \A i \in 1 .. Len(pins) : PinIsLegal(pins[i].gpio_num)

\* A reserved pin below the limit is refused while a pin object exists.
C4_Witness ==
    /\ last.op \in ConfigCtors
    /\ last.arg \in ReservedPins
    /\ last.arg < GPIO_NUM_MAX
    /\ last.thrown
    /\ last.calls = <<>>
    /\ Len(pins) > 0

----------------------------------------------------------------------------
(* C5 *)

C5_Valid ==
    /\ num # NoVal => PinIsLegal(num)
    /\ strength # NoVal => (strength >= 0 /\ strength < GPIO_DRIVE_CAP_MAX)
    /\ \A i \in 1 .. Len(pins) : PinIsLegal(pins[i].gpio_num)

\* No construction and no method call touches an object that exists.  Copy
\* assignment is neither: it leaves the class of every object alone and
\* hands the object assigned to the gpio_num of an object that exists.
C5_PinKept ==
    \A i \in 1 .. Len(pins) :
        /\ i <= Len(pins')
        /\ pins'[i].kind = pins[i].kind
        /\ last'.op # "assign" => pins'[i].gpio_num = pins[i].gpio_num
        /\ last'.op = "assign" =>
              \/ pins'[i].gpio_num = pins[i].gpio_num
              \/ /\ last'.obj = i
                 /\ \E j \in 1 .. Len(pins) : pins'[i].gpio_num = pins[j].gpio_num

\* C5: after any sequence of constructions and method calls every GPIONum
\* that exists is below the limit and not reserved, every GPIODriveStrength
\* that exists is below GPIO_DRIVE_CAP_MAX (also the one getDriveStrength
\* wraps), and the gpio_num of a pin object is valid and is changed by no
\* construction and no method call.
C5_ValidatedValuesStayValid == [][C5_Valid' /\ C5_PinKept]_vars

\* The driver hands back GPIO_DRIVE_CAP_MAX to an object whose pin is not
\* pin 0, while a GPIODriveStrength is held.
C5_Witness ==
    /\ last.op = "getDriveStrength"
    /\ last.calls[1].ret = ESP_OK
    /\ last.calls[1].out = GPIO_DRIVE_CAP_MAX
    /\ last.calls[1].pin = GPIO_NUM_MAX - 1
    /\ strength # NoVal

----------------------------------------------------------------------------
(* C6 *)

\* C6: a PinOutput object offers its caller setHigh, setLow,
\* getDriveStrength, setDriveStrength and also holdEnable and holdDisable.
C6_OutputExposesHold ==
    \A i \in 1 .. Len(pins) :
        pins[i].kind = "PinOutput" =>
            \A m \in {"setHigh", "setLow", "getDriveStrength",
                      "setDriveStrength", "holdEnable", "holdDisable"} :
                Access(pins[i].kind, m) = "public"

----------------------------------------------------------------------------
(* C7 *)

\* C7: a PinOutputInput offers setFloating, setLow, getLevel, setPullMode,
\* wakeupEnable and wakeupDisable but not setHigh; a PinOutput offers setHigh
\* and setLow but not getLevel; no getLevel ever runs on a PinOutput and no
\* setHigh on a PinOutputInput.
C7_OperationsGated ==
    /\ last.op = "getLevel" => pins[last.obj].kind # "PinOutput"
    /\ last.op = "setHigh" => pins[last.obj].kind # "PinOutputInput"
    /\ \A i \in 1 .. Len(pins) :
          /\ pins[i].kind = "PinOutputInput" =>
                /\ \A m \in {"setFloating", "setLow", "getLevel", "setPullMode",
                             "wakeupEnable", "wakeupDisable"} :
                      Access(pins[i].kind, m) = "public"
                /\ Access(pins[i].kind, "setHigh") = "none"
          /\ pins[i].kind = "PinOutput" =>
                /\ Access(pins[i].kind, "setHigh") = "public"
                /\ Access(pins[i].kind, "setLow") = "public"
                /\ Access(pins[i].kind, "getLevel") = "none"

\* getLevel runs on a PinOutputInput while a PinOutput exists.
C7_Witness ==
    /\ last.op = "getLevel"
    /\ pins[last.obj].kind = "PinOutputInput"
    /\ \E j \in 1 .. Len(pins) : pins[j].kind = "PinOutput"

----------------------------------------------------------------------------
(* C8 *)

C8_OneCall ==
    /\ Len(last.calls) = 1
    /\ last.calls[1].fn = DriverFunctionOf(last.op)
    /\ last.calls[1].pin = pins[last.obj].gpio_num
    /\ last.calls[1].ret # ESP_OK =>
          (last.thrown /\ last.error = last.calls[1].ret)

\* C8 as stated: every fallible method issues exactly one driver call, throws
\* exactly the driver's status when it is not ESP_OK, and succeeds when the
\* driver answers ESP_OK.
C8_AsStated ==
    last.op \in FallibleMethods =>
        /\ C8_OneCall
        /\ last.calls[1].ret = ESP_OK => ~last.thrown

\* C8 amended: as stated, except that getDriveStrength, when the driver
\* answers ESP_OK, still throws ESP_ERR_INVALID_ARG if the code read back is
\* not below GPIO_DRIVE_CAP_MAX, and succeeds otherwise.
C8_OneDriverCallPerMethod ==
    last.op \in FallibleMethods =>
        /\ C8_OneCall
        /\ (last.calls[1].ret = ESP_OK /\ last.op # "getDriveStrength") =>
              ~last.thrown
        /\ (last.calls[1].ret = ESP_OK /\ last.op = "getDriveStrength") =>
              /\ last.thrown <=> (last.calls[1].out >= GPIO_DRIVE_CAP_MAX)
              /\ last.thrown => last.error = ESP_ERR_INVALID_ARG
              /\ (~last.thrown) => strength = last.calls[1].out

\* getDriveStrength throws although its driver call succeeded.
C8_Witness ==
    /\ last.op = "getDriveStrength"
    /\ last.calls[1].ret = ESP_OK
    /\ last.thrown

----------------------------------------------------------------------------
(* C9 *)

\* C9: getLevel never throws, issues exactly one gpio_get_level on the
\* object's pin and nothing else, and returns HIGH if and only if the driver
\* returns a non-zero level, LOW otherwise.
C9_GetLevel ==
    last.op = "getLevel" =>
        /\ ~last.thrown
        /\ Len(last.calls) = 1
        /\ last.calls[1].fn = "gpio_get_level"
        /\ last.calls[1].pin = pins[last.obj].gpio_num
        /\ last.val \in {GPIOLevel_HIGH, GPIOLevel_LOW}
        /\ (last.val = GPIOLevel_HIGH) <=> (last.calls[1].ret # 0)

\* The driver returns a level other than 0 and 1.
C9_Witness ==
    /\ last.op = "getLevel"
    /\ last.calls[1].ret = 2
    /\ last.val = GPIOLevel_HIGH

----------------------------------------------------------------------------
(* C10 *)

OutputInputCalls == <<"gpio_reset_pin", "gpio_set_direction", "gpio_set_direction">>

OutputInputArgs == <<NoVal, GPIO_MODE_INPUT, GPIO_MODE_INPUT_OUTPUT_OD>>

C10_Calls ==
    (last.op = "PinOutputInput" /\ PinIsLegal(last.arg)) =>
        LET c == last.calls
            n == Len(last.calls)
        IN  /\ n \in 1 .. 3
            /\ \A k \in 1 .. n :
                  /\ c[k].fn = OutputInputCalls[k]
                  /\ c[k].arg = OutputInputArgs[k]
                  /\ c[k].pin = last.arg
            /\ \A k \in 1 .. n - 1 : c[k].ret = ESP_OK
            /\ n < 3 => c[n].ret # ESP_OK
            /\ last.thrown <=> (c[n].ret # ESP_OK)
            /\ (~last.thrown) =>
                  /\ LastDirection(c) = GPIO_MODE_INPUT_OUTPUT_OD
                  /\ pins[Len(pins)] =
                        [kind |-> "PinOutputInput", gpio_num |-> last.arg]
            /\ (n = 3 /\ last.thrown) => LastDirection(c) = GPIO_MODE_INPUT
            /\ (n < 3) => LastDirection(c) = NoVal

C10_NoObjectOnFailure ==
    (last'.op = "PinOutputInput" /\ last'.thrown) => pins' = pins

\* C10: PinOutputInput's constructor issues one reset, then
\* set_direction(INPUT), then set_direction(INPUT_OUTPUT_OD) on its pin; when
\* all three succeed the last direction programmed is INPUT_OUTPUT_OD; when
\* only the last fails the pin is left programmed as INPUT and no object
\* exists; when an earlier call fails no later call is issued.
C10_OutputInputConstruction == [][C10_Calls' /\ C10_NoObjectOnFailure]_vars

\* Only the last direction call fails.
C10_Witness ==
    /\ last.op = "PinOutputInput"
    /\ Len(last.calls) = 3
    /\ last.thrown
    /\ LastDirection(last.calls) = GPIO_MODE_INPUT

====
